---------------------------- MODULE Spec2Model ----------------------------
(***************************************************************************)
(* A model of the go-instagram client core: the tag-name validation, the   *)
(* request builder (Client.NewRequest), the transport and decoder          *)
(* (Client.Do), the error classifier (CheckResponse), the rate-limit       *)
(* accessor (Response.GetRatelimit), the list wrappers that read the       *)
(* pagination back from the Client (TagsService.RecentMedia and the others)*)
(* and the subscription handler (ServeInstagramRealtimeSubscribe).         *)
(*                                                                         *)
(* Strings of the program are TLA+ strings where only their identity       *)
(* matters (credentials, error kinds) and sequences of one-character       *)
(* strings where the code looks inside them (tag names, header values);    *)
(* "U+00E9" stands for the one character e-acute.                          *)
(* An optional JSON key or Go pointer is a sequence: << >> when absent or  *)
(* nil, <<x>> when present.                                                *)
(***************************************************************************)
EXTENDS Integers, Sequences, FiniteSets

VARIABLES
    tagName,   \* the argument of validTagName
    tagResult, \* what validTagName returned for it
    cfg,       \* the Client's credential fields
    reqArgs,   \* the arguments of Client.NewRequest
    req,       \* what Client.NewRequest returned for them
    resp,      \* the *http.Response handed to CheckResponse
    checked,   \* what CheckResponse returned for it
    Response,  \* Client.Response, the last stored envelope: << >> is nil
    call,      \* the last Client.Do: its arguments, what it did and returned
    ratelimit, \* what Response.GetRatelimit returned
    media,     \* the last TagsService.RecentMedia: its arguments and results
    challenge, \* the hub.challenge form value of a subscription request
    written,   \* what ServeInstagramRealtimeSubscribe wrote for it
    callers    \* the goroutines calling a list wrapper on one Client

tagVars == <<tagName, tagResult>>
reqVars == <<cfg, reqArgs, req>>
checkVars == <<resp, checked>>
doVars == <<Response, call>>
rateVars == <<ratelimit>>
mediaVars == <<media>>
serveVars == <<challenge, written>>
raceVars == <<callers>>

vars ==
    <<tagName, tagResult, cfg, reqArgs, req, resp, checked, Response, call, ratelimit,
      media, challenge, written, callers>>

(***************************************************************************)
(* Sequences over S of length at most n.                                   *)
(***************************************************************************)
SeqsUpTo(S, n) == UNION {[1..k -> S] : k \in 0..n}

(***************************************************************************)
(* Tag names.  part_000: validTagName compiles the pattern \W and rejects  *)
(* a name in which it matches anywhere.  Go's \W is the complement of the  *)
(* ASCII class [0-9A-Za-z_].                                               *)
(***************************************************************************)
MaxTagLen == 3

AsciiLetters == {"a", "Z"}
AsciiDigits == {"7"}
\* a letter outside ASCII (U+00E9): alphanumeric, but no \w character
NonAsciiLetters == {"U+00E9"}
Punctuation == {"-", " ", "#"}
TagChars == AsciiLetters \cup AsciiDigits \cup {"_"} \cup NonAsciiLetters \cup Punctuation

TagNames == SeqsUpTo(TagChars, MaxTagLen)

\* Go regexp class \w
IsWordChar(c) == c \in AsciiLetters \cup AsciiDigits \cup {"_"}

\* regexp.MustCompile(`\W`).MatchString(s): some character of s is not a word character
MatchNonWord(s) == \E i \in 1..Len(s) : ~IsWordChar(s[i])

\* the underscore left out of the accepted class ([^0-9A-Za-z] for \W)
validTagName_NoUnderscore(name) ==
    [valid |-> \A i \in 1..Len(name) : name[i] \in AsciiLetters \cup AsciiDigits,
     err |-> "nil"]

\* validTagName returns (bool, error); the constant pattern always compiles
validTagName(name) ==
    IF MatchNonWord(name)
    THEN [valid |-> FALSE, err |-> "nil"]
    ELSE [valid |-> TRUE, err |-> "nil"]

NoTagResult == [valid |-> FALSE, err |-> "not called"]

\* a caller validates the name it holds
ValidateTag ==
    /\ tagResult = NoTagResult
    /\ tagResult' = validTagName(tagName)
    /\ UNCHANGED <<tagName, reqVars, checkVars, doVars, rateVars, mediaVars, serveVars, raceVars>>

--------------------------------------------------------------------------
(***************************************************************************)
(* The request builder.  realtime.go: Client (the credential fields),      *)
(* Client.ComputeXInstaForwardedFor and Client.NewRequest.                 *)
(*                                                                         *)
(* A query string is a sequence of <<key, value>> pairs; url.Values is a   *)
(* function from keys to the sequence of the key's values, << >> for a key *)
(* the query does not carry.                                               *)
(***************************************************************************)
MaxQueryLen == 2

AccessTokens == {"", "tok"}
ClientIDs == {"", "cid"}
ClientSecrets == {"", "sec"}
ForwardedAddrs == {"", "10.0.0.1"}

\* the fields NewClient leaves at their zero value and the application sets
Configs ==
    [AccessToken : AccessTokens, ClientID : ClientIDs,
     ClientSecret : ClientSecrets, XInstaForwardedFor : ForwardedAddrs]

ZeroConfig ==
    [AccessToken |-> "", ClientID |-> "", ClientSecret |-> "", XInstaForwardedFor |-> ""]

\* the keys of a query, in the order url.Values.Encode sorts them
SortedKeys == <<"access_token", "client_id", "client_secret", "q">>
QueryKeys == {SortedKeys[i] : i \in 1..Len(SortedKeys)}
QueryValues == {"", "u"}
QueryPairs == QueryKeys \X QueryValues
Queries == SeqsUpTo(QueryPairs, MaxQueryLen)

BasePath == <<"v1">>
UserAgent == "github.com/carbocation/go-instagram v0.5"

\* urlStr: a path relative to the base ("tags/search?..."), a path with a
\* leading slash ("/tags/search?...") or a string url.Parse refuses
UrlStrs ==
    [kind : {"relative", "rooted"}, path : {<<"tags", "search">>}, query : Queries]
        \cup {[kind |-> "malformed", path |-> << >>, query |-> << >>]}

Methods == {"GET", "POST", "DELETE"}
Bodies == {"", "action=follow"}
ReqArgs == [method : Methods, urlStr : UrlStrs, body : Bodies]

\* the values of key k in the query qs, in order
ValuesOf(qs, k) ==
    LET hits == SelectSeq(qs, LAMBDA p : p[1] = k)
    IN  [i \in 1..Len(hits) |-> hits[i][2]]

\* URL.Query(): url.ParseQuery of the raw query
ParseQuery(qs) == [k \in QueryKeys |-> ValuesOf(qs, k)]

\* Values.Get: the first value of the key, "" when it has none
Get(q, k) == IF Len(q[k]) = 0 THEN "" ELSE q[k][1]

\* Values.Set: the key's values are replaced by the one value
Set(q, k, v) == [q EXCEPT ![k] = <<v>>]

\* Values.Encode: the pairs sorted by key, each key's values in their order
RECURSIVE EncodeFrom(_, _)
EncodeFrom(q, i) ==
    IF i > Len(SortedKeys) THEN << >>
    ELSE LET k == SortedKeys[i]
         IN  [j \in 1..Len(q[k]) |-> <<k, q[k][j]>>] \o EncodeFrom(q, i + 1)

Encode(q) == EncodeFrom(q, 1)

\* the secret "sec" followed by one NUL byte
NulSuffixedSecret == "sec<NUL>"

\* hmac.New copies a key of at most one block into a zeroed block: keys that
\* differ only in trailing NUL bytes are the same key
KeyBlock(key) == IF key = NulSuffixedSecret THEN "sec" ELSE key

\* hmac.New(sha256.New, key) over msg, hex encoded: a value that names the key
\* block and the message, SHA-256 itself taken to be free of collisions
HmacSha256Hex(key, msg) == <<"hmac-sha256", KeyBlock(key), msg>>

\* the MAC computed under the empty key, whatever the secret
ComputeXInstaForwardedFor_Unkeyed(c) ==
    IF c.XInstaForwardedFor = "" THEN << >>
    ELSE <<c.XInstaForwardedFor, "|", HmacSha256Hex("", c.XInstaForwardedFor)>>

\* "<address>|<mac>", or "" when no address is configured
ComputeXInstaForwardedFor(c) ==
    IF c.XInstaForwardedFor = "" THEN << >>
    ELSE <<c.XInstaForwardedFor, "|",
           HmacSha256Hex(c.ClientSecret, c.XInstaForwardedFor)>>

\* BaseURL.ResolveReference(rel): a rooted path replaces the base's path
ResolveReference(rel) ==
    IF rel.kind = "rooted" THEN rel.path ELSE BasePath \o rel.path

\* one of the three if statements: the configured value is set when the query's
\* first value for the key is empty
InjectCredential(q, k, configured) ==
    IF configured # "" /\ Get(q, k) = "" THEN Set(q, k, configured) ELSE q

NoRequest ==
    [err |-> "not called", method |-> "", path |-> << >>, query |-> << >>, body |-> "",
     ContentType |-> << >>, XInstaForwardedFor |-> << >>, UserAgent |-> << >>]

\* Client.NewRequest(method, urlStr, body)
NewRequestResult(c, a) ==
    IF a.urlStr.kind = "malformed"
    THEN [NoRequest EXCEPT !.err = "url.Parse"]
    ELSE LET q0 == ParseQuery(a.urlStr.query)
             q1 == InjectCredential(q0, "access_token", c.AccessToken)
             q2 == InjectCredential(q1, "client_id", c.ClientID)
             q3 == InjectCredential(q2, "client_secret", c.ClientSecret)
         IN  [err |-> "nil",
              method |-> a.method,
              path |-> ResolveReference(a.urlStr),
              query |-> Encode(q3),
              body |-> a.body,
              ContentType |->
                  IF a.method = "POST"
                  THEN <<"application/x-www-form-urlencoded">> ELSE << >>,
              XInstaForwardedFor |->
                  IF c.XInstaForwardedFor # ""
                  THEN <<ComputeXInstaForwardedFor(c)>> ELSE << >>,
              UserAgent |-> <<UserAgent>>]

NoArgs == [method |-> "GET", urlStr |-> [kind |-> "malformed", path |-> << >>, query |-> << >>], body |-> ""]

NewRequest ==
    /\ req = NoRequest
    /\ req' = NewRequestResult(cfg, reqArgs)
    /\ UNCHANGED <<cfg, reqArgs, tagVars, checkVars, doVars, rateVars, mediaVars, serveVars, raceVars>>

--------------------------------------------------------------------------
(***************************************************************************)
(* JSON bodies and the Go values they decode into.  realtime.go:           *)
(* ResponseMeta, ResponsePagination, InstagramError, Response.             *)
(*                                                                         *)
(* A body is no bytes at all ("empty"), text that is not JSON ("text"),    *)
(* the literal null ("null") or a JSON object ("object").  Of an object    *)
(* the model keeps the keys the decoders look at: error_type, code and     *)
(* error_message at the top level (top), and meta, data and pagination.    *)
(***************************************************************************)
Opt(S) == {<< >>} \cup {<<x>> : x \in S}

ErrorTypes == {"", "OAuthException"}
ErrorCodes == {0, 400}
ErrorMessages == {"", "bad"}

\* a JSON object with any of the keys error_type, code, error_message
ErrorObjects ==
    [error_type : Opt(ErrorTypes), code : Opt(ErrorCodes),
     error_message : Opt(ErrorMessages)]

NoKeys == [error_type |-> << >>, code |-> << >>, error_message |-> << >>]

PageObjects == [next_url : Opt({"next"}), next_max_id : Opt({"9"})]
DataValues == {"users"}

NonObject(kind) ==
    [kind |-> kind, top |-> NoKeys, meta |-> << >>, data |-> << >>, pagination |-> << >>]

Object(top, meta, data, pagination) ==
    [kind |-> "object", top |-> top, meta |-> meta, data |-> data,
     pagination |-> pagination]

\* the zero value of ResponseMeta and of InstagramError
ZeroMeta == [ErrorType |-> "", Code |-> 0, ErrorMessage |-> ""]

\* the code key decoded into the wrong field: it is lost
UnmarshalMeta_DropsCode(o, into) ==
    [ErrorType |-> IF o.error_type = << >> THEN into.ErrorType ELSE o.error_type[1],
     Code |-> into.Code,
     ErrorMessage |->
         IF o.error_message = << >> THEN into.ErrorMessage ELSE o.error_message[1]]

\* json.Unmarshal of an object into a ResponseMeta or InstagramError: a key
\* that is present sets its field, the other fields keep what they held
UnmarshalMeta(o, into) ==
    [ErrorType |-> IF o.error_type = << >> THEN into.ErrorType ELSE o.error_type[1],
     Code |-> IF o.code = << >> THEN into.Code ELSE o.code[1],
     ErrorMessage |->
         IF o.error_message = << >> THEN into.ErrorMessage ELSE o.error_message[1]]

ZeroPagination == [NextURL |-> "", NextMaxID |-> ""]

UnmarshalPagination(o) ==
    [NextURL |-> IF o.next_url = << >> THEN "" ELSE o.next_url[1],
     NextMaxID |-> IF o.next_max_id = << >> THEN "" ELSE o.next_max_id[1]]

\* error values: nil, an *InstagramError, an error holding a nil *InstagramError,
\* and the errors of the transport, of reading the body, of the JSON decoder
\* and of strconv
NoError == [kind |-> "nil", e |-> ZeroMeta]
InstagramError(e) == [kind |-> "InstagramError", e |-> e]
NilInstagramError == [kind |-> "nil *InstagramError", e |-> ZeroMeta]
ReadError == [kind |-> "read", e |-> ZeroMeta]
TransportError == [kind |-> "transport", e |-> ZeroMeta]
DecodeError == [kind |-> "decode", e |-> ZeroMeta]
SyntaxError == [kind |-> "strconv syntax", e |-> ZeroMeta]
NilDereference == [kind |-> "panic: nil pointer dereference", e |-> ZeroMeta]

--------------------------------------------------------------------------
(***************************************************************************)
(* The error classifier.  realtime.go: CheckResponse.                      *)
(***************************************************************************)
StatusOK == 200
StatusForbidden == 403
StatusTooManyRequests == 429
StatusInternalServerError == 500

\* a read that returns nil for a body of no bytes
ReadAll_NilWhenEmpty(r) ==
    IF ~r.readOk THEN [err |-> ReadError, data |-> << >>]
    ELSE IF r.body.kind = "empty" THEN [err |-> NoError, data |-> << >>]
    ELSE [err |-> NoError, data |-> <<r.body>>]

\* ioutil.ReadAll(r.Body): an error, or the bytes read; the slice it returns
\* without an error is never nil, also when the body has no bytes
ReadAll(r) ==
    IF ~r.readOk THEN [err |-> ReadError, data |-> << >>]
    ELSE [err |-> NoError, data |-> <<r.body>>]

\* the document json.Unmarshal finds in a byte slice: a nil slice has no bytes
Doc(data) == IF data = << >> THEN NonObject("empty") ELSE data[1]

\* err := &InstagramError{}; json.Unmarshal(data, &err); return err
\* (403 and 429).  Unmarshal is handed the address of the pointer, so the
\* literal null sets the pointer to nil; text that is not JSON changes nothing
ClassifyDirect(data) ==
    CASE Doc(data).kind = "object" ->
            InstagramError(UnmarshalMeta(Doc(data).top, ZeroMeta))
      [] Doc(data).kind = "null" -> NilInstagramError
      [] OTHER -> InstagramError(ZeroMeta)

\* the body of a 500 parsed like that of a 403
ClassifyInternal_Parsed(data) == ClassifyDirect(data)

\* the fixed error, whatever the body
ClassifyInternal(data) ==
    InstagramError([ErrorType |-> "Internal Server Error",
                    Code |-> StatusInternalServerError,
                    ErrorMessage |-> "Oops, an error occurred."])

\* the fallback reading the key "error" in place of "meta": it finds nothing
MetaOf_WrongKey(data) == ZeroMeta

\* temp := make(map[string]InstagramError); json.Unmarshal(data, &temp);
\* temp["meta"]: the object under the key meta decoded, the zero value when
\* the body is no object or has no such key
MetaOf(data) ==
    IF Doc(data).kind = "object" /\ Doc(data).meta # << >>
    THEN UnmarshalMeta(Doc(data).meta[1], ZeroMeta)
    ELSE ZeroMeta

\* every other status: the flat shape first, then the shape {"meta": {...}}
ClassifyOther(data) ==
    LET err == IF Doc(data).kind = "object"
               THEN UnmarshalMeta(Doc(data).top, ZeroMeta)
               ELSE ZeroMeta
    IN  IF err # ZeroMeta
        THEN InstagramError(err)
        ELSE InstagramError(MetaOf(data))

\* any 2xx status taken for a success
IsSuccess_Any2xx(status) == status \in 200..299

\* r.StatusCode == http.StatusOK
IsSuccess(status) == status = StatusOK

\* a classifier that reads the body before it looks at the status
CheckResponse_ReadsFirst(r) ==
    [err |-> IF IsSuccess(r.StatusCode) THEN NoError ELSE ReadAll(r).err,
     bodyRead |-> TRUE]

\* CheckResponse(r): the error it returns, and whether it read the body
CheckResponse(r) ==
    IF IsSuccess(r.StatusCode) THEN [err |-> NoError, bodyRead |-> FALSE]
    ELSE LET read == ReadAll(r)
         IN  [bodyRead |-> TRUE,
              err |->
                  IF read.err # NoError THEN read.err
                  ELSE IF r.StatusCode = StatusForbidden
                      THEN ClassifyDirect(read.data)
                  ELSE IF r.StatusCode = StatusTooManyRequests
                      THEN ClassifyDirect(read.data)
                  ELSE IF r.StatusCode = StatusInternalServerError
                      THEN ClassifyInternal(read.data)
                  ELSE IF read.data # << >>
                      THEN ClassifyOther(read.data)
                  ELSE NoError]

--------------------------------------------------------------------------
(***************************************************************************)
(* The transport and decoder.  realtime.go: Client.Do.                     *)
(***************************************************************************)
\* what the JSON decoder leaves in the envelope r := &Response{Response: resp,
\* Data: v} and in the target v points to, which the caller allocated empty
DecodeEnvelope(r) ==
    LET nothing == [err |-> DecodeError, Meta |-> << >>, Pagination |-> << >>,
                    target |-> ""]
    IN  CASE ~r.readOk -> [nothing EXCEPT !.err = ReadError]
          [] r.body.kind = "empty" -> nothing
          [] r.body.kind = "text" -> nothing
          [] r.body.kind = "null" -> [nothing EXCEPT !.err = NoError]
          [] OTHER ->
              [err |-> NoError,
               Meta |-> IF r.body.meta = << >> THEN << >>
                        ELSE <<UnmarshalMeta(r.body.meta[1], ZeroMeta)>>,
               Pagination |-> IF r.body.pagination = << >> THEN << >>
                              ELSE <<UnmarshalPagination(r.body.pagination[1])>>,
               target |-> IF r.body.data = << >> THEN "" ELSE r.body.data[1]]

NoHeader == [n \in {"X-Ratelimit-Limit", "X-Ratelimit-Remaining"} |-> << >>]

NoResp ==
    [StatusCode |-> 0, body |-> NonObject("empty"), readOk |-> TRUE, Header |-> NoHeader]

NoCall ==
    [done |-> FALSE, transportOk |-> FALSE, resp |-> NoResp, hasTarget |-> FALSE,
     returned |-> << >>, checkErr |-> NoError, checkRead |-> FALSE,
     err |-> NoError, decoded |-> FALSE, target |-> << >>,
     netCalls |-> 0, bodyReads |-> 0, bodyCloses |-> 0]

\* the envelope is built and decoded, and never stored on the client
StoreResponse_Dropped(slot, r) == slot

\* c.Response = r
StoreResponse(slot, r) == <<r>>

\* Client.Do(req, v) when the transport answers with r (transportOk) or fails,
\* v being nil (~hasTarget) or a pointer to an empty target: the new value of
\* c.Response, and the record of the call
DoResult(slot, transportOk, r, hasTarget) ==
    IF ~transportOk
    THEN [Response |-> slot,
          call |-> [NoCall EXCEPT !.done = TRUE, !.hasTarget = hasTarget,
                                  !.err = TransportError, !.netCalls = 1]]
    ELSE
    LET chk == CheckResponse(r)
        base == [NoCall EXCEPT !.done = TRUE, !.transportOk = TRUE, !.resp = r,
                               !.hasTarget = hasTarget, !.returned = <<r>>,
                               !.checkErr = chk.err, !.checkRead = chk.bodyRead,
                               !.netCalls = 1,
                               !.bodyReads = IF chk.bodyRead THEN 1 ELSE 0,
                               !.bodyCloses = 1,
                               !.target = IF hasTarget THEN <<"">> ELSE << >>]
    IN  IF chk.err # NoError
        THEN [Response |-> slot, call |-> [base EXCEPT !.err = chk.err]]
        ELSE IF ~hasTarget
        THEN [Response |-> slot, call |-> base]
        ELSE LET d == DecodeEnvelope(r)
                 env == [Response |-> r, Meta |-> d.Meta, Data |-> <<d.target>>,
                         Pagination |-> d.Pagination]
             IN  [Response |-> StoreResponse(slot, env),
                  call |-> [base EXCEPT !.err = d.err, !.decoded = TRUE,
                                        !.target = <<d.target>>,
                                        !.bodyReads = @ + 1]]

Statuses == {200, 201, 302, 400, 403, 429, 500}

\* the error object the spec's examples use, with a code the service sends
FullError ==
    [error_type |-> <<"OAuthException">>, code |-> <<400>>, error_message |-> <<"bad">>]

FullPage == [next_url |-> <<"next">>, next_max_id |-> <<"9">>]

\* bodies handed to Do: the three that are no object, an error object at the
\* top level and one under meta, and envelopes with and without meta, and with
\* and without data and pagination
DoBodies ==
    {NonObject(k) : k \in {"empty", "text", "null"}}
        \cup {Object(FullError, << >>, << >>, << >>),
              Object(NoKeys, <<FullError>>, << >>, << >>)}
        \cup {Object(NoKeys, m, << >>, << >>) :
                m \in {<< >>, <<[NoKeys EXCEPT !.code = <<200>>]>>}}
        \cup {Object(NoKeys, m, <<"users">>, <<FullPage>>) :
                m \in {<< >>, <<[NoKeys EXCEPT !.code = <<200>>]>>}}

DoHeaders ==
    {NoHeader,
     [NoHeader EXCEPT !["X-Ratelimit-Limit"] = <<<<"5", "0", "0", "0">>>>,
                      !["X-Ratelimit-Remaining"] = <<<<"4", "9", "9", "9">>>>]}

\* a body whose read fails delivers no content: it stands in the model as one
\* response per status and header set
DoResps ==
    [StatusCode : Statuses, body : DoBodies, readOk : {TRUE}, Header : DoHeaders]
        \cup [StatusCode : Statuses, body : {NonObject("empty")}, readOk : {FALSE},
              Header : DoHeaders]

\* one call of c.Do: the transport fails, or answers with some response
Do ==
    /\ \E transportOk \in BOOLEAN, hasTarget \in BOOLEAN :
          \E r \in IF transportOk THEN DoResps ELSE {NoResp} :
              LET out == DoResult(Response, transportOk, r, hasTarget)
              IN  /\ Response' = out.Response
                  /\ call' = out.call
    /\ UNCHANGED <<tagVars, reqVars, checkVars, rateVars, mediaVars, serveVars, raceVars>>

--------------------------------------------------------------------------
(***************************************************************************)
(* The rate-limit accessor.  realtime.go: Response.GetRatelimit.           *)
(* A header value is a sequence of characters.                             *)
(***************************************************************************)
DigitChars == <<"0", "1", "2", "3", "4", "5", "6", "7", "8", "9">>

IsDigit(c) == \E d \in 1..Len(DigitChars) : DigitChars[d] = c

DigitValue(c) == (CHOOSE d \in 1..Len(DigitChars) : DigitChars[d] = c) - 1

\* the value of a sequence of digits
RECURSIVE Decimal(_)
Decimal(s) ==
    IF Len(s) = 0 THEN 0
    ELSE 10 * Decimal(SubSeq(s, 1, Len(s) - 1)) + DigitValue(s[Len(s)])

\* strconv.Atoi: an optional sign and at least one digit, nothing else; on a
\* syntax error the value is 0.  (Header values of the model stay far below
\* the width of int, where Atoi reports a range error.)
Atoi(s) ==
    LET signed == Len(s) > 0 /\ s[1] \in {"+", "-"}
        digits == IF signed THEN Tail(s) ELSE s
    IN  IF Len(digits) = 0 \/ \E i \in 1..Len(digits) : ~IsDigit(digits[i])
        THEN [value |-> 0, err |-> SyntaxError]
        ELSE [value |-> IF signed /\ s[1] = "-" THEN 0 - Decimal(digits)
                        ELSE Decimal(digits),
              err |-> NoError]

\* Header.Get: the header's first value, the empty string when it is absent
HeaderGet(h, name) == IF h[name] = << >> THEN << >> ELSE h[name][1]

NoRatelimit == [called |-> FALSE, Limit |-> 0, Remaining |-> 0, err |-> NoError]

\* Remaining parsed from the limit header
GetRatelimit_SameHeader(slot) ==
    IF slot = << >>
    THEN [called |-> TRUE, Limit |-> 0, Remaining |-> 0, err |-> NilDereference]
    ELSE LET h == slot[1].Response.Header
             limit == Atoi(HeaderGet(h, "X-Ratelimit-Limit"))
             remaining == Atoi(HeaderGet(h, "X-Ratelimit-Limit"))
         IN  IF limit.err # NoError
             THEN [called |-> TRUE, Limit |-> limit.value, Remaining |-> 0,
                   err |-> limit.err]
             ELSE [called |-> TRUE, Limit |-> limit.value,
                   Remaining |-> remaining.value, err |-> remaining.err]

\* c.Response.GetRatelimit(): (Ratelimit, error); on a client that stored no
\* response the receiver is nil and the call panics
GetRatelimitResult(slot) ==
    IF slot = << >>
    THEN [called |-> TRUE, Limit |-> 0, Remaining |-> 0, err |-> NilDereference]
    ELSE LET h == slot[1].Response.Header
             limit == Atoi(HeaderGet(h, "X-Ratelimit-Limit"))
             remaining == Atoi(HeaderGet(h, "X-Ratelimit-Remaining"))
         IN  IF limit.err # NoError
             THEN [called |-> TRUE, Limit |-> limit.value, Remaining |-> 0,
                   err |-> limit.err]
             ELSE [called |-> TRUE, Limit |-> limit.value,
                   Remaining |-> remaining.value, err |-> remaining.err]

GetRatelimit ==
    /\ ~ratelimit.called
    /\ ratelimit' = GetRatelimitResult(Response)
    /\ UNCHANGED <<tagVars, reqVars, checkVars, doVars, mediaVars, serveVars, raceVars>>

\* header values: decimal integers as a server writes them, with a sign and
\* with leading zeros, and values that are no integer
NumericHeaders ==
    {<<"0">>, <<"7">>, <<"4", "9", "9", "9">>, <<"5", "0", "0", "0">>,
     <<"0", "0", "7">>, <<"-", "1">>, <<"+", "5">>}

OtherHeaders ==
    {<< >>, <<"a", "b", "c">>, <<"5", "0", "x">>, <<" ", "5">>, <<"5", ".", "0">>,
     <<"-">>, <<"5", "-">>}

HeaderStrings == NumericHeaders \cup OtherHeaders

RateHeaders == [{"X-Ratelimit-Limit", "X-Ratelimit-Remaining"} -> Opt(HeaderStrings)]

\* the envelopes a successful Do stores, over every pair of rate-limit headers
RateResponses ==
    {<< >>} \cup
    {<<[Response |-> [StatusCode |-> StatusOK, body |-> Object(NoKeys, << >>, << >>, << >>),
                      readOk |-> TRUE, Header |-> h],
        Meta |-> << >>, Data |-> <<"">>, Pagination |-> << >>]>> : h \in RateHeaders}

\* CheckResponse applied to the response it is handed
Check ==
    /\ ~checked.called
    /\ checked' = [called |-> TRUE, err |-> CheckResponse(resp).err,
                   bodyRead |-> CheckResponse(resp).bodyRead]
    /\ UNCHANGED <<resp, tagVars, reqVars, doVars, rateVars, mediaVars, serveVars, raceVars>>

NotChecked == [called |-> FALSE, err |-> NoError, bodyRead |-> FALSE]

\* every body of the model
AllBodies ==
    {NonObject(k) : k \in {"empty", "text", "null"}}
        \cup {Object(top, meta, data, page) :
                top \in ErrorObjects, meta \in Opt(ErrorObjects),
                data \in Opt(DataValues), page \in {<< >>, <<FullPage>>}}

CheckResps ==
    [StatusCode : Statuses, body : AllBodies, readOk : {TRUE}, Header : {NoHeader}]
        \cup [StatusCode : Statuses, body : {NonObject("empty")}, readOk : {FALSE},
              Header : {NoHeader}]

--------------------------------------------------------------------------
(***************************************************************************)
(* The media list of a tag.  part_000: TagsService.RecentMedia.            *)
(***************************************************************************)
\* a []Media result: the nil slice, the empty slice, or the decoded data
NilSlice == "nil"
EmptySlice == "[]"

NoMedia ==
    [called |-> FALSE, tagName |-> << >>, hasOpt |-> FALSE, before |-> << >>,
     built |-> << >>, sent |-> 0, media |-> NilSlice, page |-> << >>, err |-> NoError]

\* u: "tags/<tagName>/media/recent", with "?" and the encoded parameters when
\* opt is not nil; the Parameters the model passes hold no value, and their
\* encoding is empty
RecentMediaURL(tag, hasOpt) ==
    [kind |-> "relative", path |-> <<"tags">> \o tag \o <<"media", "recent">>,
     query |-> << >>]

\* errors.New of the message that quotes the error of Do
RecentMediaError(e) == [kind |-> "go-instagram Tag.RecentMedia error", e |-> e.e]

\* new([]Media) after Do: the decoder fills it only from a data key
DecodedSlice(target) == IF target = <<"">> THEN NilSlice ELSE target[1]

\* RecentMedia from the request on: NewRequest, Do, and the pagination read
\* back from c.Response
FetchMedia(c, slot, tag, hasOpt, transportOk, r) ==
    LET start == [NoMedia EXCEPT !.called = TRUE, !.tagName = tag,
                                 !.hasOpt = hasOpt, !.before = slot]
        rq == NewRequestResult(c, [method |-> "GET",
                                   urlStr |-> RecentMediaURL(tag, hasOpt),
                                   body |-> ""])
    IN  IF rq.err # "nil"
        THEN [Response |-> slot, call |-> NoCall,
              media |-> [start EXCEPT !.err = [kind |-> rq.err, e |-> ZeroMeta]]]
        ELSE
        LET d == DoResult(slot, transportOk, r, TRUE)
            sent == [start EXCEPT !.built = <<rq>>, !.sent = d.call.netCalls]
        IN  IF d.call.err # NoError
            THEN [Response |-> d.Response, call |-> d.call,
                  media |-> [sent EXCEPT !.err = RecentMediaError(d.call.err)]]
            ELSE [Response |-> d.Response, call |-> d.call,
                  media |-> [sent EXCEPT
                      !.media = DecodedSlice(d.call.target),
                      !.page = IF d.Response[1].Pagination # << >>
                               THEN d.Response[1].Pagination
                               ELSE <<ZeroPagination>>]]

\* the wrapper without its early return: an invalid name is requested as well
RecentMediaResult_NoEarlyReturn(c, slot, tag, hasOpt, transportOk, r) ==
    FetchMedia(c, slot, tag, hasOpt, transportOk, r)

\* TagsService.RecentMedia(tagName, opt): the new c.Response, the record of
\* the Do it made (NoCall when it made none) and what it returned
RecentMediaResult(c, slot, tag, hasOpt, transportOk, r) ==
    LET v == validTagName(tag)
    IN  IF v.err # "nil"
        THEN [Response |-> slot, call |-> NoCall,
              media |-> [NoMedia EXCEPT !.called = TRUE, !.tagName = tag,
                                        !.hasOpt = hasOpt, !.before = slot,
                                        !.err = [kind |-> v.err, e |-> ZeroMeta]]]
        ELSE IF ~v.valid
        THEN [Response |-> slot, call |-> NoCall,
              media |-> [NoMedia EXCEPT !.called = TRUE, !.tagName = tag,
                                        !.hasOpt = hasOpt, !.before = slot,
                                        !.media = EmptySlice,
                                        !.page = <<ZeroPagination>>]]
        ELSE FetchMedia(c, slot, tag, hasOpt, transportOk, r)

\* the responses the service gives a media request: a success or a client
\* error, with any of the bodies
MediaResps == {r \in DoResps : r.Header = NoHeader /\ r.StatusCode \in {StatusOK, 400}}

\* c.Response when RecentMedia is called: nil on a new client, or the
\* envelope an earlier call stored
EarlierEnvelopes ==
    {DoResult(<< >>, TRUE, r, TRUE).Response :
        r \in {x \in MediaResps : x.StatusCode = StatusOK /\ x.body.kind = "object"
                                    /\ x.body.top = NoKeys /\ x.body.meta = << >>}}

MediaSlots == {<< >>} \cup EarlierEnvelopes

\* one call of RecentMedia with the name the caller holds
RecentMedia ==
    /\ ~media.called
    /\ \E hasOpt \in BOOLEAN, transportOk \in BOOLEAN :
          \E r \in IF transportOk THEN MediaResps ELSE {NoResp} :
              LET out == RecentMediaResult(cfg, Response, tagName, hasOpt,
                                           transportOk, r)
              IN  /\ Response' = out.Response
                  /\ call' = IF out.call = NoCall THEN call ELSE out.call
                  /\ media' = out.media
    /\ UNCHANGED <<tagVars, reqVars, checkVars, rateVars, serveVars, raceVars>>

--------------------------------------------------------------------------
(***************************************************************************)
(* The subscription handler.  part_002: ServeInstagramRealtimeSubscribe.   *)
(* It hands the challenge to fmt.Fprintf as the format, with no operands.  *)
(***************************************************************************)
MaxChallengeLen == 3

\* characters of a challenge: a letter that is no verb of fmt, a letter that
\* is one, the percent sign, a digit and a flag of fmt
ChallengeChars == {"a", "d", "%", "1", "-"}

Challenges == SeqsUpTo(ChallengeChars, MaxChallengeLen)

\* the values the request's form holds for hub.challenge: none, or one
Forms == Opt(Challenges)

\* Request.FormValue: the first value of the key, "" when it has none
FormValue(form) == IF form = << >> THEN << >> ELSE form[1]

FmtFlags == {"#", "0", "+", "-", " "}
FmtDigits == {"0", "1", "2", "3", "4", "5", "6", "7", "8", "9"}

\* the first position from i on that holds no character of S
RECURSIVE SkipWhile(_, _, _)
SkipWhile(f, i, S) ==
    IF i <= Len(f) /\ f[i] \in S THEN SkipWhile(f, i + 1, S) ELSE i

\* what fmt writes for a directive it cannot serve
NoVerbString == <<"%", "!", "(", "N", "O", "V", "E", "R", "B", ")">>
MissingString(verb) == <<"%", "!", verb, "(", "M", "I", "S", "S", "I", "N", "G", ")">>

\* fmt's doPrintf from position i of the format f, with no operand: text is
\* copied up to a percent sign; after it the flags and the width are consumed;
\* a format that ends there yields %!(NOVERB), the verb % yields a percent
\* sign, and any other verb finds its operand missing
RECURSIVE Sprintf(_, _)
Sprintf(f, i) ==
    IF i > Len(f) THEN << >>
    ELSE IF f[i] # "%" THEN <<f[i]>> \o Sprintf(f, i + 1)
    ELSE LET k == SkipWhile(f, SkipWhile(f, i + 1, FmtFlags), FmtDigits)
         IN  IF k > Len(f) THEN NoVerbString
             ELSE IF f[k] = "%" THEN <<"%">> \o Sprintf(f, k + 1)
             ELSE MissingString(f[k]) \o Sprintf(f, k + 1)

NotServed == [called |-> FALSE, verify |-> << >>, body |-> << >>]

\* the handler: verify := r.FormValue("hub.challenge"); fmt.Fprintf(w, verify)
ServeResult(form) ==
    LET verify == FormValue(form)
    IN  [called |-> TRUE, verify |-> verify, body |-> Sprintf(verify, 1)]

ServeInstagramRealtimeSubscribe ==
    /\ ~written.called
    /\ written' = ServeResult(challenge)
    /\ UNCHANGED <<challenge, tagVars, reqVars, checkVars, doVars, rateVars,
                   mediaVars, raceVars>>

--------------------------------------------------------------------------
(***************************************************************************)
(* The list wrappers on a shared Client.  relationships.go: Follows,       *)
(* FollowedBy, RequestedBy; part_000: TagsService.RecentMedia, Search.     *)
(* Each calls Do with a target and then reads c.Response.Pagination; Do    *)
(* writes c.Response, and nothing orders the accesses of two goroutines.   *)
(***************************************************************************)
Procs == {1, 2}

ListWrappers == {"Follows", "FollowedBy", "RequestedBy", "RecentMedia", "Search"}

\* a goroutine's call of a list wrapper: where it stands, whether another
\* call was under way at any time during it, the envelope its Do decoded,
\* and what the wrapper returned
NoCaller ==
    [pc |-> "idle", wrapper |-> "", overlapped |-> FALSE, pending |-> << >>,
     err |-> NoError, page |-> << >>]

\* writer is the goroutine whose Do wrote c.Response last, 0 when none has
NoCallers == [proc |-> [i \in Procs |-> NoCaller], writer |-> 0]

Active(c) == c.pc \notin {"idle", "done"}

\* the answers of the service to a list request: pages with different
\* cursors, a page without pagination, a body that is no JSON, an error
RacePages ==
    {<<FullPage>>, <<[next_url |-> <<"next">>, next_max_id |-> << >>]>>, << >>}

RaceResps ==
    {[StatusCode |-> StatusOK, body |-> Object(NoKeys, << >>, <<"users">>, pg),
      readOk |-> TRUE, Header |-> NoHeader] : pg \in RacePages}
        \cup {[StatusCode |-> StatusOK, body |-> NonObject("text"), readOk |-> TRUE,
               Header |-> NoHeader],
              [StatusCode |-> 400, body |-> Object(FullError, << >>, << >>, << >>),
               readOk |-> TRUE, Header |-> NoHeader]}

\* a read of the slot that sees no pagination
LoadPagination_Nil(slot) == << >>

\* s.client.Response.Pagination
LoadPagination(slot) == slot[1].Pagination

\* what goroutine i can see of the pagination of the stored envelope: its own
\* write as it made it; the write of another goroutine, which no
\* synchronisation publishes, with the field set or not yet set
Visible(i) ==
    IF callers.writer = i
    THEN {LoadPagination(Response)}
    ELSE {LoadPagination(Response), << >>}

\* the wrapper is entered (RecentMedia with a name that passes validation):
\* NewRequest, and Do up to the decoded envelope, which is local to the
\* goroutine; RecentMedia wraps an error of Do in a new one
Call(i) ==
    /\ callers.proc[i].pc = "idle"
    /\ \E w \in ListWrappers, transportOk \in BOOLEAN :
          \E r \in IF transportOk THEN RaceResps ELSE {NoResp} :
              LET d == DoResult(<< >>, transportOk, r, TRUE)
                  others == \E j \in Procs \ {i} : Active(callers.proc[j])
              IN  callers' =
                      [callers EXCEPT !.proc =
                          [j \in Procs |->
                              IF j = i
                              THEN [NoCaller EXCEPT !.pc = "do", !.wrapper = w,
                                                    !.overlapped = others,
                                                    !.pending = d.Response,
                                                    !.err =
                                                        IF d.call.err # NoError
                                                            /\ w = "RecentMedia"
                                                        THEN RecentMediaError(d.call.err)
                                                        ELSE d.call.err]
                              ELSE IF Active(callers.proc[j])
                              THEN [callers.proc[j] EXCEPT !.overlapped = TRUE]
                              ELSE callers.proc[j]]]
    /\ UNCHANGED <<tagVars, reqVars, checkVars, doVars, rateVars, mediaVars, serveVars>>

\* Do ends: c.Response = r when an envelope was decoded into, and the wrapper
\* returns nil, nil, err on an error of Do
Store(i) ==
    LET c == callers.proc[i]
    IN  /\ c.pc = "do"
        /\ Response' = IF c.pending # << >> THEN StoreResponse(Response, c.pending[1])
                       ELSE Response
        /\ callers' =
              [callers EXCEPT
                  !.writer = IF c.pending # << >> THEN i ELSE @,
                  !.proc[i].pc = IF c.err # NoError THEN "done" ELSE "test"]
        /\ UNCHANGED <<call, tagVars, reqVars, checkVars, rateVars, mediaVars, serveVars>>

\* page := new(ResponsePagination); if s.client.Response.Pagination != nil
TestPagination(i) ==
    /\ callers.proc[i].pc = "test"
    /\ \E seen \in Visible(i) :
          callers' =
              [callers EXCEPT
                  !.proc[i].pc = IF seen # << >> THEN "assign" ELSE "done",
                  !.proc[i].page = IF seen # << >> THEN @ ELSE <<ZeroPagination>>]
    /\ UNCHANGED <<tagVars, reqVars, checkVars, doVars, rateVars, mediaVars, serveVars>>

\* page = s.client.Response.Pagination, and the wrapper returns
AssignPagination(i) ==
    /\ callers.proc[i].pc = "assign"
    /\ \E seen \in Visible(i) :
          callers' = [callers EXCEPT !.proc[i].pc = "done", !.proc[i].page = seen]
    /\ UNCHANGED <<tagVars, reqVars, checkVars, doVars, rateVars, mediaVars, serveVars>>

--------------------------------------------------------------------------
(***************************************************************************)
(* The specifications.  Each draws the inputs of one part of the client    *)
(* and applies the code to them.                                           *)
(***************************************************************************)
TagIdle == tagName = << >> /\ tagResult = NoTagResult
ReqIdle == cfg = ZeroConfig /\ reqArgs = NoArgs /\ req = NoRequest
CheckIdle == resp = NoResp /\ checked = NotChecked
DoIdle == Response = << >> /\ call = NoCall
RateIdle == ratelimit = NoRatelimit
MediaIdle == media = NoMedia
ServeIdle == challenge = << >> /\ written = NotServed
RaceIdle == callers = NoCallers

TagInit ==
    /\ tagName \in TagNames
    /\ tagResult = NoTagResult
    /\ ReqIdle /\ CheckIdle /\ DoIdle /\ RateIdle
    /\ MediaIdle /\ ServeIdle /\ RaceIdle

TagNext == ValidateTag

SpecTag == TagInit /\ [][TagNext]_vars

ReqInit ==
    /\ cfg \in Configs
    /\ reqArgs \in ReqArgs
    /\ req = NoRequest
    /\ TagIdle /\ CheckIdle /\ DoIdle /\ RateIdle
    /\ MediaIdle /\ ServeIdle /\ RaceIdle

ReqNext == NewRequest

SpecReq == ReqInit /\ [][ReqNext]_vars

CheckInit ==
    /\ resp \in CheckResps
    /\ checked = NotChecked
    /\ TagIdle /\ ReqIdle /\ DoIdle /\ RateIdle
    /\ MediaIdle /\ ServeIdle /\ RaceIdle

CheckNext == Check

SpecCheck == CheckInit /\ [][CheckNext]_vars

\* a client as NewClient returns it, then any sequence of calls of Do
DoInit ==
    /\ TagIdle /\ ReqIdle /\ CheckIdle /\ DoIdle /\ RateIdle
    /\ MediaIdle /\ ServeIdle /\ RaceIdle

DoNext == Do

SpecDo == DoInit /\ [][DoNext]_vars

RateInit ==
    /\ Response \in RateResponses
    /\ call = NoCall
    /\ ratelimit = NoRatelimit
    /\ TagIdle /\ ReqIdle /\ CheckIdle
    /\ MediaIdle /\ ServeIdle /\ RaceIdle

RateNext == GetRatelimit

SpecRate == RateInit /\ [][RateNext]_vars

\* clients that authenticate with or without an access token
MediaConfigs ==
    {c \in Configs : c.ClientID = "" /\ c.ClientSecret = "" /\ c.XInstaForwardedFor = ""}

MediaInit ==
    /\ tagName \in TagNames
    /\ tagResult = NoTagResult
    /\ cfg \in MediaConfigs
    /\ reqArgs = NoArgs /\ req = NoRequest
    /\ Response \in MediaSlots
    /\ call = NoCall
    /\ media = NoMedia
    /\ CheckIdle /\ RateIdle /\ ServeIdle /\ RaceIdle

MediaNext == RecentMedia

SpecMedia == MediaInit /\ [][MediaNext]_vars

ServeInit ==
    /\ challenge \in Forms
    /\ written = NotServed
    /\ TagIdle /\ ReqIdle /\ CheckIdle /\ DoIdle /\ RateIdle
    /\ MediaIdle /\ RaceIdle

ServeNext == ServeInstagramRealtimeSubscribe

SpecServe == ServeInit /\ [][ServeNext]_vars

\* a new client shared by the goroutines, which call in any interleaving
RaceInit ==
    /\ callers = NoCallers
    /\ TagIdle /\ ReqIdle /\ CheckIdle /\ DoIdle /\ RateIdle
    /\ MediaIdle /\ ServeIdle

RaceNext ==
    \E i \in Procs :
        \/ Call(i)
        \/ Store(i)
        \/ TestPagination(i)
        \/ AssignPagination(i)

SpecRace == RaceInit /\ [][RaceNext]_vars

--------------------------------------------------------------------------
(***************************************************************************)
(* What the claims expect of a structured-error object: each key that is   *)
(* present gives its field, each absent key leaves the field empty or zero.*)
(***************************************************************************)
ErrorOf(o) ==
    [ErrorType |-> IF o.error_type = << >> THEN "" ELSE o.error_type[1],
     Code |-> IF o.code = << >> THEN 0 ELSE o.code[1],
     ErrorMessage |-> IF o.error_message = << >> THEN "" ELSE o.error_message[1]]

\* and of a pagination object
CursorOf(o) ==
    [NextURL |-> IF o.next_url = << >> THEN "" ELSE o.next_url[1],
     NextMaxID |-> IF o.next_max_id = << >> THEN "" ELSE o.next_max_id[1]]

\* the statuses CheckResponse has no special case for
IsOtherStatus(status) == status \notin {200, 403, 429, 500}

(***************************************************************************)
(* C2: Do treats exactly status 200 as success.  For every other status    *)
(* the response goes to CheckResponse, Do returns the classifier's error   *)
(* (an error, never nil) with the response, and the body is not decoded    *)
(* into the caller's target; for status 200 CheckResponse returns no error *)
(* and does not read the body.                                             *)
(***************************************************************************)
C2_OnlyStatus200IsSuccess ==
    (call.done /\ call.transportOk) =>
        IF call.resp.StatusCode = 200
        THEN call.checkErr = NoError /\ ~call.checkRead
        ELSE /\ call.checkErr # NoError
             /\ call.err = call.checkErr
             /\ call.returned = <<call.resp>>
             /\ ~call.decoded
             /\ call.target = IF call.hasTarget THEN <<"">> ELSE << >>

\* a 201 whose body is a complete envelope, handed to Do with a target
C2_Witness ==
    /\ call.done /\ call.transportOk /\ call.hasTarget
    /\ call.resp.StatusCode = 201
    /\ call.resp.body = Object(NoKeys, << >>, <<"users">>, <<FullPage>>)
    /\ call.err = InstagramError(ZeroMeta)
    /\ ~call.decoded

(***************************************************************************)
(* C3: after Do on a status-200 response with a well-formed envelope body  *)
(* and a non-nil target, Do returns no error, the target holds the decoded *)
(* payload and Client.Response holds this call's response, status metadata *)
(* and pagination cursor, whatever an earlier call had stored.             *)
(***************************************************************************)
C3_EnvelopeOfLastCallStored ==
    (/\ call.done /\ call.transportOk /\ call.hasTarget
     /\ call.resp.StatusCode = 200 /\ call.resp.readOk
     /\ call.resp.body.kind = "object") =>
        LET body == call.resp.body
        IN  /\ call.err = NoError
            /\ call.target = IF body.data = << >> THEN <<"">> ELSE body.data
            /\ Response # << >>
            /\ Response[1].Response = call.resp
            /\ Response[1].Data = call.target
            /\ Response[1].Meta =
                  IF body.meta = << >> THEN << >> ELSE <<ErrorOf(body.meta[1])>>
            /\ Response[1].Pagination =
                  IF body.pagination = << >> THEN << >>
                  ELSE <<CursorOf(body.pagination[1])>>

C3_Witness ==
    /\ call.done /\ call.hasTarget /\ call.err = NoError
    /\ call.resp.StatusCode = 200
    /\ call.resp.Header # NoHeader
    /\ call.resp.body = Object(NoKeys, <<[NoKeys EXCEPT !.code = <<200>>]>>,
                               <<"users">>, <<FullPage>>)
    /\ call.target = <<"users">>
    /\ Response = <<[Response |-> call.resp,
                     Meta |-> <<[ErrorType |-> "", Code |-> 200, ErrorMessage |-> ""]>>,
                     Data |-> <<"users">>,
                     Pagination |-> <<[NextURL |-> "next", NextMaxID |-> "9"]>>]>>

(***************************************************************************)
(* C4: after any Do that returns without error, a call made with no target *)
(* included, the envelope Client.Response holds is the envelope of that    *)
(* call: an accessor called next never observes an earlier call's response.*)
(***************************************************************************)
C4_NeverObservesEarlierCall ==
    (call.done /\ call.err = NoError /\ Response # << >>) =>
        Response[1].Response = call.resp

(***************************************************************************)
(* C5: CheckResponse on status 403 or 429 with a structured-error JSON     *)
(* object as the body returns an InstagramError whose kind, code and       *)
(* message are the body's error_type, code and error_message.              *)
(***************************************************************************)
C5_DirectErrorMatchesBody ==
    (/\ checked.called /\ resp.StatusCode \in {403, 429}
     /\ resp.readOk /\ resp.body.kind = "object") =>
        /\ checked.err.kind = "InstagramError"
        /\ checked.err.e = ErrorOf(resp.body.top)

C5_Witness ==
    /\ checked.called /\ resp.StatusCode = 429
    /\ resp.body.top = FullError
    /\ checked.err =
          InstagramError([ErrorType |-> "OAuthException", Code |-> 400,
                          ErrorMessage |-> "bad"])

(***************************************************************************)
(* C6: CheckResponse on status 500 returns, for every body that can be     *)
(* read (empty, plain text, null, any object), the fixed error "Internal   *)
(* Server Error", 500, "Oops, an error occurred.".                         *)
(***************************************************************************)
C6_InternalServerErrorFixed ==
    (checked.called /\ resp.StatusCode = 500 /\ resp.readOk) =>
        checked.err =
            InstagramError([ErrorType |-> "Internal Server Error", Code |-> 500,
                            ErrorMessage |-> "Oops, an error occurred."])

\* a 500 whose body is itself a complete error object
C6_Witness ==
    /\ checked.called /\ resp.StatusCode = 500
    /\ resp.body.top = FullError
    /\ checked.err.e.ErrorType = "Internal Server Error"

(***************************************************************************)
(* C7: CheckResponse on a non-200 status other than 403, 429 and 500       *)
(* returns the same error for an error object at the top level of the body *)
(* and for the same object under the key "meta": the flat decoding is      *)
(* returned when any of its fields is non-empty, and otherwise the value   *)
(* under "meta" (the zero error when there is none).                       *)
(***************************************************************************)
C7_FlatAndNestedAgree ==
    (/\ checked.called /\ IsOtherStatus(resp.StatusCode)
     /\ resp.readOk /\ resp.body.kind = "object") =>
        LET body == resp.body
            nested == IF body.meta = << >> THEN ZeroMeta ELSE ErrorOf(body.meta[1])
        IN  /\ body.meta = << >> => checked.err = InstagramError(ErrorOf(body.top))
            /\ body.top = NoKeys => checked.err = InstagramError(nested)
            /\ ErrorOf(body.top) # ZeroMeta =>
                  checked.err = InstagramError(ErrorOf(body.top))
            /\ ErrorOf(body.top) = ZeroMeta => checked.err = InstagramError(nested)

\* the spec's second example: the error object under meta
C7_Witness ==
    /\ checked.called /\ resp.StatusCode = 400
    /\ resp.body = Object(NoKeys, <<FullError>>, << >>, << >>)
    /\ checked.err =
          InstagramError([ErrorType |-> "OAuthException", Code |-> 400,
                          ErrorMessage |-> "bad"])

(***************************************************************************)
(* C8 (as stated): on a non-200 status other than 403, 429 and 500 with an *)
(* empty body CheckResponse returns nil, and Do reports no error.          *)
(***************************************************************************)
C8_EmptyBodyNoError ==
    (/\ call.done /\ call.transportOk /\ IsOtherStatus(call.resp.StatusCode)
     /\ call.resp.readOk /\ call.resp.body.kind = "empty") =>
        call.checkErr = NoError /\ call.err = NoError

(***************************************************************************)
(* C8 (amended): on a non-200 status other than 403, 429 and 500 with an   *)
(* empty body CheckResponse returns a non-nil InstagramError whose kind,   *)
(* code and message are all empty or zero, and Do returns that error       *)
(* without decoding anything.                                              *)
(***************************************************************************)
C8_EmptyBodyZeroError ==
    (/\ call.done /\ call.transportOk /\ IsOtherStatus(call.resp.StatusCode)
     /\ call.resp.readOk /\ call.resp.body.kind = "empty") =>
        /\ call.checkErr = InstagramError(ZeroMeta)
        /\ call.err = InstagramError(ZeroMeta)
        /\ ~call.decoded

C8_Witness ==
    /\ call.done /\ call.transportOk /\ call.hasTarget
    /\ call.resp.StatusCode = 400
    /\ call.resp.readOk /\ call.resp.body.kind = "empty"
    /\ call.err.kind = "InstagramError"

(***************************************************************************)
(* C9: GetRatelimit returns the integer values of the X-Ratelimit-Limit    *)
(* and X-Ratelimit-Remaining headers of the stored response when both are  *)
(* present and numeric, and an error when either is absent or not numeric. *)
(***************************************************************************)
IntegerOf(s) ==
    CASE s = <<"0">> -> 0
      [] s = <<"7">> -> 7
      [] s = <<"4", "9", "9", "9">> -> 4999
      [] s = <<"5", "0", "0", "0">> -> 5000
      [] s = <<"0", "0", "7">> -> 7
      [] s = <<"-", "1">> -> 0 - 1
      [] s = <<"+", "5">> -> 5

C9_RatelimitFromHeaders ==
    (ratelimit.called /\ Response # << >>) =>
        LET limit == Response[1].Response.Header["X-Ratelimit-Limit"]
            remaining == Response[1].Response.Header["X-Ratelimit-Remaining"]
        IN  IF /\ limit # << >> /\ remaining # << >>
               /\ limit[1] \in NumericHeaders /\ remaining[1] \in NumericHeaders
            THEN /\ ratelimit.err = NoError
                 /\ ratelimit.Limit = IntegerOf(limit[1])
                 /\ ratelimit.Remaining = IntegerOf(remaining[1])
            ELSE ratelimit.err # NoError

\* the spec's example: Limit=5000, Remaining=4999
C9_Witness ==
    /\ Response # << >>
    /\ Response[1].Response.Header["X-Ratelimit-Limit"] = <<<<"5", "0", "0", "0">>>>
    /\ Response[1].Response.Header["X-Ratelimit-Remaining"] = <<<<"4", "9", "9", "9">>>>
    /\ ratelimit = [called |-> TRUE, Limit |-> 5000, Remaining |-> 4999, err |-> NoError]

--------------------------------------------------------------------------
(***************************************************************************)
(* C10 (as stated): validTagName accepts a tag name exactly when every     *)
(* character in it is alphanumeric (a letter or a digit).                  *)
(***************************************************************************)
IsAlphanumeric(c) == c \in AsciiLetters \cup NonAsciiLetters \cup AsciiDigits

--------------------------------------------------------------------------
(***************************************************************************)
(* C1: NewRequest adds each of access_token, client_id and client_secret   *)
(* to the request URL only when it is configured and the caller's URL does *)
(* not already carry that parameter, each decided on its own, and leaves   *)
(* every value the caller supplied, for these and for every other          *)
(* parameter, unchanged.                                                   *)
(***************************************************************************)
CredentialKeys == {"access_token", "client_id", "client_secret"}

Configured(c, k) ==
    CASE k = "access_token" -> c.AccessToken
      [] k = "client_id" -> c.ClientID
      [] k = "client_secret" -> c.ClientSecret
      [] OTHER -> ""

C1_AddsOnlyWhenNotCarried ==
    req.err = "nil" =>
        LET given == ParseQuery(reqArgs.urlStr.query)
            sent == ParseQuery(req.query)
        IN  \A k \in QueryKeys :
                IF k \in CredentialKeys /\ Len(given[k]) = 0 /\ Configured(cfg, k) # ""
                THEN sent[k] = <<Configured(cfg, k)>>
                ELSE sent[k] = given[k]

\* C11: a call of RecentMedia with a tag name that validTagName rejects returns
\* the empty media list, an empty pagination object and no error, has built no
\* request and sent none, and leaves Client.Response as it was before the call.
C11_InvalidTagShortCircuits ==
    (media.called /\ ~validTagName(media.tagName).valid) =>
        /\ media.media = EmptySlice
        /\ media.page = <<ZeroPagination>>
        /\ media.err = NoError
        /\ media.built = << >>
        /\ media.sent = 0
        /\ Response = media.before

\* an invalid name was passed on a client that held an earlier envelope
C11_Witness ==
    /\ media.called
    /\ MatchNonWord(media.tagName)
    /\ media.before # << >>
    /\ media.media = EmptySlice

\* C12: the body ServeInstagramRealtimeSubscribe writes is exactly the
\* hub.challenge form value, character for character, whatever the value is.
C12_BodyIsChallenge ==
    written.called => written.body = FormValue(challenge)

\* clients to compare a token with: two addresses, and the secrets of the
\* model next to one that differs from "sec" in a trailing NUL byte
OtherClients ==
    [AccessToken : {""}, ClientID : {""},
     ClientSecret : ClientSecrets \cup {NulSuffixedSecret},
     XInstaForwardedFor : {"10.0.0.1", "10.0.0.2"}]

C14_OneCallOneCloseOneRead ==
    call.done =>
        /\ call.netCalls = 1
        /\ ~call.transportOk =>
              call.bodyCloses = 0 /\ call.bodyReads = 0 /\ call.returned = << >>
        /\ call.transportOk =>
              /\ call.bodyCloses = 1
              /\ call.bodyReads <= 1
              /\ ~(call.checkRead /\ call.decoded)
              /\ call.checkRead <=> call.resp.StatusCode # StatusOK
              /\ call.decoded <=> (call.resp.StatusCode = StatusOK /\ call.hasTarget)
              /\ call.bodyReads = IF call.checkRead \/ call.decoded THEN 1 ELSE 0

\* the decoder failed on a status-200 body that is no JSON: the body was read
\* by the decoder alone and closed once
C14_Witness ==
    /\ call.done /\ call.transportOk /\ call.hasTarget
    /\ call.resp.StatusCode = StatusOK
    /\ call.resp.body.kind = "text"
    /\ call.err = DecodeError
    /\ call.decoded /\ ~call.checkRead
    /\ call.bodyReads = 1 /\ call.bodyCloses = 1

\* the cursor a wrapper returns for the envelope its own Do decoded
OwnCursor(c) ==
    IF c.pending[1].Pagination # << >> THEN c.pending[1].Pagination
    ELSE <<ZeroPagination>>

\* what a wrapper can return when it reads the envelope of another call: that
\* call's cursor, a new empty page, or the nil pointer of a field read away
\* between the test and the assignment
ForeignCursors(i) ==
    UNION {IF callers.proc[j].pending = << >> THEN {}
           ELSE {callers.proc[j].pending[1].Pagination, <<ZeroPagination>>, << >>} :
           j \in Procs \ {i}}

\* C15: a list wrapper that returned without error returns the cursor of
\* its own response when no other call on the Client was under way during
\* it; a wrapper that ran concurrently with another call returns its own
\* cursor or what it read of the envelope the other call stored.
C15_OwnCursorUnlessRaced ==
    \A i \in Procs :
        LET c == callers.proc[i]
        IN  (c.pc = "done" /\ c.err = NoError) =>
                /\ ~c.overlapped => c.page = OwnCursor(c)
                /\ c.overlapped => c.page \in {OwnCursor(c)} \cup ForeignCursors(i)

\* the interleaving of the claim: goroutine 1 returned, without error, the
\* cursor of the response of goroutine 2, which differs from its own
C15_Witness ==
    LET a == callers.proc[1]
        b == callers.proc[2]
    IN  /\ a.pc = "done" /\ a.err = NoError /\ a.overlapped
        /\ b.pending # << >> /\ b.err = NoError
        /\ a.pending[1].Pagination = <<UnmarshalPagination(FullPage)>>
        /\ b.pending[1].Pagination # << >>
        /\ a.page = b.pending[1].Pagination
        /\ a.page # OwnCursor(a)

==========================================================================
